---- MODULE Spec2Model ----
(***************************************************************************)
(* A model of src/src/models/recurrent/stablessm.py: the DropoutNd         *)
(* primitive, the diagonal state-space kernel generator STABLESSMKernel,   *)
(* the sequence block STABLESSM and the residual stack StableSSMModel.     *)
(*                                                                         *)
(* Scaled integers stand for the decimal constants of the source:          *)
(*   dropout probabilities are in tenths          (p = 1.0  is 10),        *)
(*   learning rates and dt are in units of 1e-4   (0.001    is 10),        *)
(*   parameter initial values are in units of 1e-6 (math.pi is 3141593).   *)
(***************************************************************************)
EXTENDS Integers, Sequences, FiniteSets, TLC

VARIABLES
  call,     \* the call the caller made last: the constructor's arguments, and L of a forward
  raised,   \* the exception that call raised to the caller ("none" when it returned)
  ret,      \* what the last forward call returned to its caller
  kernel,   \* the caller's STABLESSMKernel object
  block,    \* the caller's STABLESSM object
  model,    \* the caller's StableSSMModel object
  training, \* nn.Module.training of the object the caller holds
  pc,       \* where StableSSMModel.forward stands: "idle", "loop", "done"
  nextLayer, \* the layer the loop of StableSSMModel.forward comes to next
  x,        \* the local x of StableSSMModel.forward: its shape and its value
  parameterization, \* self.parameterization of a kernel in its forward pass
  log_A_real,       \* one element of the kernel's raw decay parameter
  A,        \* the real part of the effective decay forward computed from it
  C,        \* the kernel's output coupling, C[h][n] complex
  expdtA,   \* the value of exp(dtA[h][n]) in the kernel's forward pass
  zoh,      \* the value of (exp(dtA[h][n]) - 1) / A[h][n]
  D,        \* the block's feedthrough coefficients D[h]
  U,        \* the input u of a convolution or of a block's forward pass
  K,        \* the convolution kernel k[h][l]
  Y,        \* the convolution's result y, or the block's y before the activation
  out       \* what the block's forward pass returns, as the operations applied to y

objVars == <<call, raised, ret, kernel, block, model, training, pc, nextLayer, x>>
numVars == <<parameterization, log_A_real, A, C, expdtA, zoh, D, U, K, Y, out>>
vars == <<objVars, numVars>>

----------------------------------------------------------------------------
(* Bounds of the model.                                                    *)

MaxH == 2        \* channels d_model / rec1_size range over 1..MaxH
MaxN == 3        \* state dimensions N range over 0..MaxN
MaxL == 2        \* sequence lengths L range over 1..MaxL
MaxLayers == 2   \* n_layers ranges over 0..MaxLayers
MaxB == 1        \* batch sizes B range over 1..MaxB

----------------------------------------------------------------------------
(* Values the caller passes.                                               *)

KnownParameterizations == {"exp", "softplus", "best", "direct"}
ParameterizationNames == KnownParameterizations \cup {"linear", "EXP"}

\* lr=None is [given |-> FALSE]; lr=r is [given |-> TRUE, v |-> r] (units of 1e-4)
NoneLr == [given |-> FALSE, v |-> 0]
GivenLr(rate) == [given |-> TRUE, v |-> rate]
LrValues == {NoneLr, GivenLr(0), GivenLr(10), GivenLr(-10)}

DropoutValues == {-5, 0, 2, 10, 15}      \* -0.5, 0.0, 0.2, 1.0, 1.5
DtValues == {-10, 0, 5, 3300}            \* -0.001, 0.0, 0.0005, 0.33
LogDtDraws == {-6907755, -2302585}       \* log(dt_min), log(dt_max): the range of line 51

NoObject == [exists |-> FALSE]
NoReturn == [kind |-> "nothing", shape |-> <<>>]
NoCall == [op |-> "none"]

\* A value as the expression that computed it: the operation, the layer it
\* belongs to (0 for none) and its operands.
T(op, n, args) == [op |-> op, n |-> n, args |-> args]
NoTensor == [shape |-> <<>>, term |-> T("none", 0, <<>>)]

\* A float32 value: its class ("zero", "fin", "inf"), its sign, and, when
\* exact, the rational num/den it equals.  A finite value that is no
\* rational of the model (a value of exp or log) has exact = FALSE.
FZero == [cls |-> "zero", sgn |-> 0, exact |-> TRUE, num |-> 0, den |-> 1]
FInf(sg) == [cls |-> "inf", sgn |-> sg, exact |-> FALSE, num |-> sg, den |-> 0]
FPositive == [cls |-> "fin", sgn |-> 1, exact |-> FALSE, num |-> 0, den |-> 1]
FRat(n, d) ==
  IF n = 0 THEN FZero
  ELSE [cls |-> "fin", sgn |-> IF n > 0 THEN 1 ELSE -1, exact |-> TRUE,
        num |-> n, den |-> d]
NotComputed == [cls |-> "none", sgn |-> 0, exact |-> FALSE, num |-> 0, den |-> 1]

Min(a, b) == IF a <= b THEN a ELSE b

----------------------------------------------------------------------------
(* STABLESSMKernel.register                                                *)

\* The mutant: the lr == 0.0 test is dropped, every tensor becomes a parameter.
RegisterAlwaysParameter(reg, name, tensor, lr) ==
  [n \in (DOMAIN reg) \cup {name} |->
     IF n = name
       THEN [kind |-> "parameter",
             optim |-> {<<"weight_decay", 0>>} \cup
                       (IF lr.given THEN {<<"lr", lr.v>>} ELSE {}),
             tagged |-> TRUE,
             value |-> tensor]
       ELSE reg[n]]

\* register(name, tensor, lr): the module's named tensors after the call.
\* An entry is a buffer or a parameter; tagged says whether the _optim
\* attribute was set on it, optim is that dictionary as a set of items.
Register(reg, name, tensor, lr) ==
  [n \in (DOMAIN reg) \cup {name} |->
     IF n = name
       THEN IF lr.given /\ lr.v = 0
              THEN [kind |-> "buffer", optim |-> {}, tagged |-> FALSE,
                    value |-> tensor]
              ELSE [kind |-> "parameter",
                    optim |-> {<<"weight_decay", 0>>} \cup
                              (IF lr.given THEN {<<"lr", lr.v>>} ELSE {}),
                    tagged |-> TRUE,
                    value |-> tensor]
       ELSE reg[n]]

----------------------------------------------------------------------------
(* STABLESSMKernel.__init__                                                *)

PiMicro == 3141593

\* The mutant: N // 2 rounded up instead of down.
ModesCeil(N) == (N + 1) \div 2

\* N // 2: the number of complex modes the layer stores.
Modes(N) == N \div 2

\* A tensor of shape (H, M) with every element v.
Full(H, M, v) == [h \in 1..H |-> [n \in 0..(M - 1) |-> v]]

\* math.pi * repeat(torch.arange(N // 2), "n -> h n", h=H)
AImagInit(H, N) == [h \in 1..H |-> [n \in 0..(Modes(N) - 1) |-> PiMicro * n]]

\* The initial raw decay for A_weights = 0.5 (units of 1e-6):
\* log(0.5), log(expm1(0.5)), sqrt(max(1/0.5 - 0.1, 1e-6)), 0.5.
LogARealInit(param) ==
  CASE param = "exp"      -> -693147
    [] param = "softplus" -> -432752
    [] param = "best"     -> 1378405
    [] param = "direct"   -> 500000

\* The mutant: an unrecognised name is treated as "direct" and __init__
\* returns None.
KernelInitDefaultsToDirect(d_model, N, lr, param, log_dt) ==
  LET H == d_model
      r1 == Register(<<>>, "log_dt", [h \in 1..H |-> log_dt], lr)
      raw == IF param \in KnownParameterizations
               THEN LogARealInit(param) ELSE LogARealInit("direct")
      r2 == Register(r1, "log_A_real", Full(H, Modes(N), raw), lr)
      r3 == Register(r2, "A_imag", AImagInit(H, N), lr)
  IN [returned |-> "None",
      self |-> [exists |-> TRUE, parameterization |-> param,
                H |-> H, N |-> N, C |-> <<H, Modes(N), 2>>, reg |-> r3]]

\* The mutant: A_imag is registered with lr = 0, a fixed buffer whatever lr is.
KernelInitFixedAImag(d_model, N, lr, param, log_dt) ==
  LET H == d_model
      r1 == Register(<<>>, "log_dt", [h \in 1..H |-> log_dt], lr)
      self1 == [exists |-> TRUE, parameterization |-> param,
                H |-> H, N |-> N, C |-> <<H, Modes(N), 2>>, reg |-> r1]
  IN IF param \in KnownParameterizations
       THEN LET r2 == Register(r1, "log_A_real",
                               Full(H, Modes(N), LogARealInit(param)), lr)
                r3 == Register(r2, "A_imag", AImagInit(H, N), GivenLr(0))
            IN [returned |-> "None", self |-> [self1 EXCEPT !.reg = r3]]
       ELSE [returned |-> "ValueError", self |-> self1]

\* The body of __init__: what it returns and the object it leaves behind.
\* An unrecognised parameterization reaches line 71, which returns (does
\* not raise) a ValueError after log_dt alone was registered.
KernelInit(d_model, N, lr, param, log_dt) ==
  LET H == d_model
      r1 == Register(<<>>, "log_dt", [h \in 1..H |-> log_dt], lr)
      self1 == [exists |-> TRUE, parameterization |-> param,
                H |-> H, N |-> N, C |-> <<H, Modes(N), 2>>, reg |-> r1]
  IN IF param \in KnownParameterizations
       THEN LET r2 == Register(r1, "log_A_real",
                               Full(H, Modes(N), LogARealInit(param)), lr)
                r3 == Register(r2, "A_imag", AImagInit(H, N), lr)
            IN [returned |-> "None", self |-> [self1 EXCEPT !.reg = r3]]
       ELSE [returned |-> "ValueError", self |-> self1]

\* The expression STABLESSMKernel(...): Python's type.__call__ raises
\* TypeError when __init__ returns anything but None, and the caller then
\* receives no object.
NewKernelOutcome(d_model, N, lr, param, log_dt) ==
  LET r == KernelInit(d_model, N, lr, param, log_dt)
  IN IF r.returned = "None"
       THEN [raised |-> "none", obj |-> r.self]
       ELSE [raised |-> "TypeError", obj |-> NoObject]

----------------------------------------------------------------------------
(* STABLESSMKernel.forward: the parameterization dispatch and the result   *)

\* forward(L) returns the kernel, a real tensor of shape (H, L), or for an
\* unrecognised parameterization the ValueError object of line 94.
KernelForwardReturn(self, L) ==
  IF self.parameterization \in KnownParameterizations
    THEN [kind |-> "tensor", shape |-> <<self.H, L>>]
    ELSE [kind |-> "ValueError", shape |-> <<>>]

----------------------------------------------------------------------------
(* DropoutNd.__init__ and STABLESSM.__init__                               *)

\* DropoutNd(p): raises ValueError unless 0 <= p < 1.
DropoutNdOutcome(p) ==
  IF p < 0 \/ p >= 10
    THEN [raised |-> "ValueError", obj |-> NoObject]
    ELSE [raised |-> "none",
          obj |-> [exists |-> TRUE, class |-> "DropoutNd", p |-> p,
                   tie |-> TRUE, transposed |-> TRUE]]

\* dropout_fn(dropout) if dropout > 0.0 else nn.Identity()
BlockDropoutOutcome(dropout) ==
  IF dropout > 0
    THEN DropoutNdOutcome(dropout)
    ELSE [raised |-> "none",
          obj |-> [exists |-> TRUE, class |-> "Identity", p |-> 0,
                   tie |-> TRUE, transposed |-> TRUE]]

\* STABLESSM(d_model, d_state, dropout, transposed, lr=, parameterization=):
\* the kernel is built first (line 131), then the dropout (line 137).
NewBlockOutcome(d_model, d_state, dropout, transposed, lr, param, log_dt) ==
  LET k == NewKernelOutcome(d_model, d_state, lr, param, log_dt)
      d == BlockDropoutOutcome(dropout)
  IN IF k.raised # "none" THEN [raised |-> k.raised, obj |-> NoObject]
     ELSE IF d.raised # "none" THEN [raised |-> d.raised, obj |-> NoObject]
     ELSE [raised |-> "none",
           obj |-> [exists |-> TRUE, h |-> d_model, n |-> d_state,
                    d_output |-> d_model, transposed |-> transposed,
                    kernel |-> k.obj, dropout |-> d.obj]]

----------------------------------------------------------------------------
(* StableSSMModel.__init__                                                 *)

DefaultDState == 64

\* torch's nn.Dropout1d(p) raises ValueError unless 0 <= p <= 1.
Dropout1dRaises(p) == p < 0 \/ p > 10

\* One iteration of the loop of lines 192-203.
NewLayerOutcome(rec1_size, dropout, dt, param, log_dt) ==
  LET b == NewBlockOutcome(rec1_size, DefaultDState, dropout, TRUE,
                           GivenLr(Min(10, dt)), param, log_dt)
  IN IF b.raised # "none" THEN b
     ELSE IF Dropout1dRaises(dropout) THEN [raised |-> "ValueError", obj |-> NoObject]
     ELSE b

\* StableSSMModel(rec1_size, n_layers, dropout, dt, prenorm, parameterization,
\* return_seq): every layer is built from the same arguments.
NewModelOutcome(rec1_size, n_layers, dropout, dt, prenorm, param, return_seq, log_dt) ==
  LET layer == NewLayerOutcome(rec1_size, dropout, dt, param, log_dt)
  IN IF n_layers > 0 /\ layer.raised # "none"
       THEN [raised |-> layer.raised, obj |-> NoObject]
       ELSE [raised |-> "none",
             obj |-> [exists |-> TRUE, prenorm |-> prenorm, return_seq |-> return_seq,
                      stablessm_layers |-> [j \in 1..n_layers |-> layer.obj],
                      norms |-> [j \in 1..n_layers |-> rec1_size],
                      dropouts |-> [j \in 1..n_layers |-> dropout]]]

----------------------------------------------------------------------------
(* Tensor shapes, as tuples of dimensions; -1 marks a dimension on which   *)
(* the operation would fail.                                               *)

Last(s) == s[Len(s)]
SetLast(s, v) == [s EXCEPT ![Len(s)] = v]

\* t.transpose(-1, -2)
Transpose(s) ==
  [d \in 1..Len(s) |->
     IF d = Len(s) THEN s[Len(s) - 1]
     ELSE IF d = Len(s) - 1 THEN s[Len(s)]
     ELSE s[d]]

\* torch.fft.rfft(t, n=n) and torch.fft.irfft(t, n=n) on the last axis
RfftShape(s, n) == SetLast(s, n \div 2 + 1)
IrfftShape(s, n) == SetLast(s, n)

\* t[..., :L]
SliceLast(s, L) == SetLast(s, Min(Last(s), L))

\* t.unsqueeze(-1)
Unsqueeze(s) == Append(s, 1)

BroadcastDim(a, b) ==
  IF a = b THEN a ELSE IF a = 1 THEN b ELSE IF b = 1 THEN a ELSE -1

\* The shape of an elementwise operation of two tensors (right-aligned).
Broadcast(s, t) ==
  LET n == IF Len(s) >= Len(t) THEN Len(s) ELSE Len(t)
      At(u, d) == IF d + Len(u) - n >= 1 THEN u[d + Len(u) - n] ELSE 1
  IN [d \in 1..n |-> BroadcastDim(At(s, d), At(t, d))]

\* nn.Conv1d(cin, cout, kernel_size=1) on (B, cin, L)
Conv1dShape(s, cin, cout) ==
  [s EXCEPT ![2] = IF s[2] = cin THEN cout ELSE -1]

\* The mutant: the gate keeps all 2H channels.
GLUShapeKeepsChannels(s) == s

\* nn.GLU(dim=-2): the channel axis is split in two halves
GLUShape(s) ==
  [s EXCEPT ![Len(s) - 1] = IF s[Len(s) - 1] % 2 = 0 THEN s[Len(s) - 1] \div 2 ELSE -1]

\* nn.LayerNorm(H) on a tensor whose last axis has H features
LayerNormShape(s, H) == SetLast(s, IF Last(s) = H THEN H ELSE -1)

\* t.mean(dim=1)
MeanDim1Shape(s) == <<s[1]>> \o SubSeq(s, 3, Len(s))

----------------------------------------------------------------------------
(* STABLESSM.forward: the shape of the tensor it returns                   *)

BlockForwardShape(self, ushape) ==
  LET u == IF ~self.transposed THEN Transpose(ushape) ELSE ushape
      L == Last(u)
      k == KernelForwardReturn(self.kernel, L).shape
      k_f == RfftShape(k, 2 * L)
      u_f == RfftShape(u, 2 * L)
      y1 == SliceLast(IrfftShape(Broadcast(u_f, k_f), 2 * L), L)
      y2 == Broadcast(y1, Broadcast(u, Unsqueeze(<<self.h>>)))
      y3 == GLUShape(Conv1dShape(y2, self.h, 2 * self.h))
  IN IF ~self.transposed THEN Transpose(y3) ELSE y3

----------------------------------------------------------------------------
(* STABLESSMKernel.forward: the real part of the effective decay A, lines  *)
(* 85-92, on float32 tensors (torch's default dtype, which torch.ones of   *)
(* line 58 and so log_A_real have).  The raw value is an integer here.     *)

FNeg(v) == [v EXCEPT !.sgn = -v.sgn, !.num = -v.num]

\* torch.exp(raw) in float32: exp(raw) rounds to 0 once it is below half the
\* least subnormal 2^-149 (raw <= -104, as e^-104 < 2^-150), and to inf once
\* it exceeds the largest float (raw >= 89, as e^89 > 3.4e38).
FExp(raw) ==
  IF raw <= -104 THEN FZero
  ELSE IF raw >= 89 THEN FInf(1)
  ELSE IF raw = 0 THEN FRat(1, 1)
  ELSE FPositive

\* torch.log(1 + torch.exp(raw)) in float32: 1 + exp(raw) rounds to 1, and
\* its log is 0, once exp(raw) is below half an ulp of 1, 2^-24 (raw <= -17,
\* as e^-17 < 2^-24 < e^-16); log(inf) is inf.
FLog1pExp(raw) ==
  IF FExp(raw).cls = "zero" \/ raw <= -17 THEN FZero
  ELSE IF FExp(raw).cls = "inf" THEN FInf(1)
  ELSE FPositive

\* raw ** 2, v + 0.1 and 1 / v on the exact values
FSquare(raw) == FRat(raw * raw, 1)
FAddTenth(v) == FRat(10 * v.num + v.den, 10 * v.den)
FRecip(v) ==
  IF v.cls = "zero" THEN FInf(1)
  ELSE IF v.cls = "inf" THEN FZero
  ELSE IF v.num > 0 THEN FRat(v.den, v.num) ELSE FRat(-v.den, -v.num)

\* The mutant: the 0.1 of line 90 is left out.
RealPartBestWithoutOffset(param, raw) ==
  CASE param = "exp"      -> FNeg(FExp(raw))
    [] param = "softplus" -> FNeg(FLog1pExp(raw))
    [] param = "best"     -> FNeg(FRecip(FSquare(raw)))
    [] param = "direct"   -> FRat(raw, 1)

\* The real part of A for each parameterization.
RealPart(param, raw) ==
  CASE param = "exp"      -> FNeg(FExp(raw))
    [] param = "softplus" -> FNeg(FLog1pExp(raw))
    [] param = "best"     -> FNeg(FRecip(FAddTenth(FSquare(raw))))
    [] param = "direct"   -> FRat(raw, 1)

----------------------------------------------------------------------------
(* Tensors with values: u[b][h][l] and k[h][l], with b and h counted from  *)
(* 1 and the time index l from 0; complex numbers are pairs <<re, im>>.    *)

RECURSIVE SumFn(_, _, _)
\* f[lo] + ... + f[hi]
SumFn(f, lo, hi) == IF lo > hi THEN 0 ELSE f[lo] + SumFn(f, lo + 1, hi)

CMul(a, b) == <<a[1] * b[1] - a[2] * b[2], a[1] * b[2] + a[2] * b[1]>>

RECURSIVE CPow(_, _)
\* The l-th power of a: exp(dtA * l) is exp(dtA) to the l
CPow(a, l) == IF l = 0 THEN <<1, 0>> ELSE CMul(a, CPow(a, l - 1))

\* t.transpose(-1, -2) of a tensor with three axes
TransposeNum(t) ==
  [b \in DOMAIN t |->
     LET rows == DOMAIN t[b]
         cols == DOMAIN t[b][CHOOSE r \in rows : TRUE]
     IN [c \in cols |-> [r \in rows |-> t[b][r][c]]]]

----------------------------------------------------------------------------
(* STABLESSMKernel.forward: the kernel, lines 96-103                       *)

\* The mutant: the coupling C is left out of the product.
KernelValueWithoutC(c, s, e, L) ==
  [h \in DOMAIN c |->
     [l \in 0..(L - 1) |->
        2 * SumFn([n \in DOMAIN c[h] |-> CMul(s[h][n], CPow(e[h][n], l))[1]],
                  0, Cardinality(DOMAIN c[h]) - 1)]]

\* K[h][l] = 2 * Re(sum over n of C[h][n] * s[h][n] * e[h][n]^l), where
\* s[h][n] is the value of (exp(dtA) - 1) / A and e[h][n] that of exp(dtA).
KernelValue(c, s, e, L) ==
  [h \in DOMAIN c |->
     [l \in 0..(L - 1) |->
        2 * SumFn([n \in DOMAIN c[h] |->
                     CMul(CMul(c[h][n], s[h][n]), CPow(e[h][n], l))[1]],
                  0, Cardinality(DOMAIN c[h]) - 1)]]

----------------------------------------------------------------------------
(* STABLESSM.forward: the convolution and the skip term, lines 154-160     *)

\* The mutant: the transforms are taken at length L, without padding.
FFTLengthUnpadded(L) == L

\* n=2 * L of lines 155-157
FFTLength(L) == 2 * L

\* rfft(v, n=n) first pads v with zeros, or trims it, to length n
Pad(v, L, n) == [j \in 0..(n - 1) |-> IF j < L THEN v[j] ELSE 0]

\* irfft(rfft(a) * rfft(b), n=n): by the convolution theorem the circular
\* convolution of period n
CircConv(a, b, n) ==
  [l \in 0..(n - 1) |->
     SumFn([j \in 0..(n - 1) |-> a[j] * b[(l - j) % n]], 0, n - 1)]

\* torch.fft.irfft(u_f * k_f, n=2 * L)[..., :L]: channel h of u meets
\* channel h of k, for every batch element
FFTConv(uu, kk, L) ==
  [b \in DOMAIN uu |->
     [h \in DOMAIN uu[b] |->
        LET n == FFTLength(L)
            full == CircConv(Pad(uu[b][h], L, n), Pad(kk[h], L, n), n)
        IN [l \in 0..(Min(n, L) - 1) |-> full[l]]]]

\* y + u * self.D.unsqueeze(-1)
AddSkip(yy, uu, d) ==
  [b \in DOMAIN yy |->
     [h \in DOMAIN yy[b] |->
        [l \in DOMAIN yy[b][h] |-> yy[b][h][l] + uu[b][h][l] * d[h]]]]

\* self.dropout(t): DropoutNd masks in training, nn.Identity never does
BlockDropout(self, train, t) ==
  IF self.dropout.class = "DropoutNd" /\ train THEN T("DropoutNd", 0, <<t>>) ELSE t

\* STABLESSM.forward with the kernel's values c, s, e and the skip d: the
\* kernel, y before the activation, and the returned value as the
\* operations applied to y.
BlockForwardValue(self, train, c, s, e, d, uin) ==
  LET u1 == IF ~self.transposed THEN TransposeNum(uin) ELSE uin
      L == Cardinality(DOMAIN u1[1][1])
      kk == KernelValue(c, s, e, L)
      y1 == AddSkip(FFTConv(u1, kk, L), u1, d)
      y2 == BlockDropout(self, train, T("GELU", 0, <<T("y", 0, <<>>)>>))
      y3 == T("GLU", 0, <<T("Conv1d", 0, <<y2>>)>>)
  IN [k |-> kk, y |-> y1,
      out |-> IF ~self.transposed THEN T("transpose", 0, <<y3>>) ELSE y3]

----------------------------------------------------------------------------
(* StableSSMModel.forward: one iteration of the loop of lines 209-228      *)

\* norm(z.transpose(-1, -2)).transpose(-1, -2)
Norm(self, idx, z) ==
  [shape |-> Transpose(LayerNormShape(Transpose(z.shape), self.norms[idx])),
   term |-> T("LayerNorm", idx, <<z.term>>)]

\* z, _ = layer(z)
Block(self, idx, z) ==
  [shape |-> BlockForwardShape(self.stablessm_layers[idx], z.shape),
   term |-> T("STABLESSM", idx, <<z.term>>)]

\* dropout(z) of nn.Dropout1d(p): the identity outside training and for p = 0
Dropout1d(self, idx, train, z) ==
  IF train /\ self.dropouts[idx] > 0
    THEN [shape |-> z.shape, term |-> T("Dropout1d", idx, <<z.term>>)]
    ELSE z

\* z + x
Add(z, xin) ==
  [shape |-> Broadcast(z.shape, xin.shape),
   term |-> T("add", 0, <<z.term, xin.term>>)]

\* The mutant: the normalization is applied before the block and after the
\* residual add, whatever prenorm says.
LayerBodyBothNorms(self, idx, xin, train) ==
  Norm(self, idx, Add(Dropout1d(self, idx, train, Block(self, idx, Norm(self, idx, xin))), xin))

LayerBody(self, idx, xin, train) ==
  LET z1 == IF self.prenorm THEN Norm(self, idx, xin) ELSE xin
      z2 == Block(self, idx, z1)
      z3 == Dropout1d(self, idx, train, z2)
      x1 == Add(z3, xin)
  IN IF ~self.prenorm THEN Norm(self, idx, x1) ELSE x1

\* Lines 230-238: the tensor forward returns.
ModelForwardReturn(self, xin) ==
  LET xt == Transpose(xin.shape)
  IN [kind |-> "tensor",
      shape |-> IF ~self.return_seq THEN MeanDim1Shape(xt) ELSE xt]

----------------------------------------------------------------------------
(* The caller's operations on the constructors and on the kernel.  The     *)
(* constructors read no state and the objects share none, so the model     *)
(* follows one object: the caller constructs it, then uses it.             *)

\* No object constructed, no call made.
ObjIdle ==
  /\ call = NoCall
  /\ raised = "none"
  /\ ret = NoReturn
  /\ kernel = NoObject
  /\ block = NoObject
  /\ model = NoObject
  /\ training = TRUE
  /\ pc = "idle"
  /\ nextLayer = 0
  /\ x = NoTensor

\* No decay computed.
DecayIdle ==
  /\ parameterization = "exp"
  /\ log_A_real = 0
  /\ A = NotComputed

\* No tensor in a forward pass.
TensorIdle ==
  /\ C = <<>> /\ expdtA = <<>> /\ zoh = <<>> /\ D = <<>>
  /\ U = <<>> /\ K = <<>> /\ Y = <<>>
  /\ out = T("none", 0, <<>>)

Init == ObjIdle /\ DecayIdle /\ TensorIdle

\* k = STABLESSMKernel(d_model, N=N, lr=lr, parameterization=p)
NewKernel ==
  /\ call.op = "none"
  /\ \E d_model \in 1..MaxH, N \in 0..MaxN, lr \in LrValues,
     p \in ParameterizationNames, log_dt \in LogDtDraws :
    LET o == NewKernelOutcome(d_model, N, lr, p, log_dt)
    IN /\ call' = [op |-> "STABLESSMKernel", d_model |-> d_model, N |-> N,
                   lr |-> lr, parameterization |-> p, dropout |-> 0, dt |-> 0,
                   n_layers |-> 0, L |-> 0, shape |-> <<>>]
       /\ raised' = o.raised
       /\ kernel' = o.obj
       /\ ret' = NoReturn
       /\ block' = NoObject
       /\ model' = NoObject
       /\ UNCHANGED <<training, pc, nextLayer, x>>
       /\ UNCHANGED numVars

\* K = k.forward(L) on the caller's kernel
KernelForward ==
  /\ kernel.exists
  /\ \E L \in 1..MaxL :
       /\ call' = [call EXCEPT !.op = "forward", !.L = L]
       /\ raised' = "none"
       /\ ret' = KernelForwardReturn(kernel, L)
       /\ UNCHANGED <<kernel, block, model, training, pc, nextLayer, x>>
       /\ UNCHANGED numVars

\* b = STABLESSM(d_model, d_state=N, dropout=p, lr=lr, parameterization=p)
NewBlock ==
  /\ call.op = "none"
  /\ \E d_model \in 1..MaxH, N \in 0..MaxN, dropout \in DropoutValues,
     transposed \in BOOLEAN, lr \in LrValues, p \in ParameterizationNames,
     log_dt \in LogDtDraws :
    LET o == NewBlockOutcome(d_model, N, dropout, transposed, lr, p, log_dt)
    IN /\ call' = [op |-> "STABLESSM", d_model |-> d_model, N |-> N,
                   lr |-> lr, parameterization |-> p, dropout |-> dropout,
                   dt |-> 0, n_layers |-> 0, L |-> 0, shape |-> <<>>]
       /\ raised' = o.raised
       /\ block' = o.obj
       /\ ret' = NoReturn
       /\ kernel' = NoObject
       /\ model' = NoObject
       /\ UNCHANGED <<training, pc, nextLayer, x>>
       /\ UNCHANGED numVars

\* m = StableSSMModel(rec1_size, n_layers, dropout, dt, prenorm, parameterization, return_seq)
NewModel ==
  /\ call.op = "none"
  /\ \E rec1_size \in 1..MaxH, n_layers \in 0..MaxLayers, dropout \in DropoutValues,
     dt \in DtValues, prenorm \in BOOLEAN, p \in ParameterizationNames,
     return_seq \in BOOLEAN, log_dt \in LogDtDraws :
    LET o == NewModelOutcome(rec1_size, n_layers, dropout, dt, prenorm, p,
                             return_seq, log_dt)
    IN /\ call' = [op |-> "StableSSMModel", d_model |-> rec1_size,
                   N |-> DefaultDState, lr |-> GivenLr(Min(10, dt)),
                   parameterization |-> p, dropout |-> dropout, dt |-> dt,
                   n_layers |-> n_layers, L |-> 0,
                   shape |-> <<>>]
       /\ raised' = o.raised
       /\ model' = o.obj
       /\ ret' = NoReturn
       /\ kernel' = NoObject
       /\ block' = NoObject
       /\ UNCHANGED <<training, pc, nextLayer, x>>
       /\ UNCHANGED numVars

\* obj.train() / obj.eval(): nn.Module.training of the object the caller holds
SetTraining ==
  /\ kernel.exists \/ block.exists \/ model.exists
  /\ pc # "loop"
  /\ training' = ~training
  /\ UNCHANGED <<call, raised, ret, kernel, block, model, pc, nextLayer, x>>
  /\ UNCHANGED numVars

\* y, _ = b.forward(u) on the caller's block, u in the layout the block was
\* configured for: (B, H, L) when transposed, (B, L, H) when not
BlockForward ==
  /\ block.exists
  /\ \E B \in 1..MaxB, L \in 1..MaxL :
       LET ushape == IF block.transposed THEN <<B, block.h, L>> ELSE <<B, L, block.h>>
       IN /\ call' = [call EXCEPT !.op = "STABLESSM.forward", !.L = L, !.shape = ushape]
          /\ raised' = "none"
          /\ ret' = [kind |-> "tensor", shape |-> BlockForwardShape(block, ushape)]
          /\ UNCHANGED <<kernel, block, model, training, pc, nextLayer, x>>
          /\ UNCHANGED numVars

\* m.forward(x) is entered with x of shape (B, L, channel_count): line 208
ModelForwardBegin ==
  /\ model.exists
  /\ pc # "loop"
  /\ \E B \in 1..MaxB, L \in 1..MaxL :
       /\ call' = [call EXCEPT !.op = "StableSSMModel.forward", !.L = L,
                               !.shape = <<B, L, call.d_model>>]
       /\ x' = [shape |-> Transpose(<<B, L, call.d_model>>), term |-> T("input", 0, <<>>)]
  /\ raised' = "none"
  /\ ret' = NoReturn
  /\ pc' = "loop"
  /\ nextLayer' = 1
  /\ UNCHANGED <<kernel, block, model, training>>
  /\ UNCHANGED numVars

\* one iteration of the loop over the layers: lines 209-228
LayerStep ==
  /\ pc = "loop"
  /\ nextLayer <= Len(model.stablessm_layers)
  /\ x' = LayerBody(model, nextLayer, x, training)
  /\ nextLayer' = nextLayer + 1
  /\ UNCHANGED <<call, raised, ret, kernel, block, model, training, pc>>
  /\ UNCHANGED numVars

\* the loop is over: lines 230-238
ModelForwardEnd ==
  /\ pc = "loop"
  /\ nextLayer > Len(model.stablessm_layers)
  /\ ret' = ModelForwardReturn(model, x)
  /\ pc' = "done"
  /\ UNCHANGED <<call, raised, kernel, block, model, training, nextLayer, x>>
  /\ UNCHANGED numVars

Next ==
  \/ NewKernel \/ KernelForward \/ NewBlock \/ NewModel
  \/ SetTraining \/ BlockForward
  \/ ModelForwardBegin \/ LayerStep \/ ModelForwardEnd

Spec == Init /\ [][Next]_vars

----------------------------------------------------------------------------
(* The decay of a kernel whose raw decay the optimizer has set.            *)

MaxRaw == 110    \* raw decay values range over -MaxRaw..MaxRaw

InitDecay ==
  /\ ObjIdle /\ TensorIdle
  /\ parameterization \in KnownParameterizations
  /\ log_A_real \in (-MaxRaw)..MaxRaw
  /\ A = NotComputed

\* lines 85-92 of forward: A's real part from the raw decay
DecayForward ==
  /\ A.cls = "none"
  /\ A' = RealPart(parameterization, log_A_real)
  /\ UNCHANGED <<objVars, parameterization, log_A_real, C, expdtA, zoh, D, U, K, Y, out>>

NextDecay == DecayForward

SpecDecay == InitDecay /\ [][NextDecay]_vars

----------------------------------------------------------------------------
(* The convolution of lines 154-157 on inputs and kernels with at most two *)
(* nonzero samples.                                                        *)

Samples == {0, -1, 2}

SparseK(H, L) ==
  LET Idx == (1..H) \X (0..(L - 1))
  IN {[h \in 1..H |-> [l \in 0..(L - 1) |->
         IF <<h, l>> = p THEN v ELSE IF <<h, l>> = q THEN w ELSE 0]] :
        p \in Idx, q \in Idx, v \in Samples, w \in Samples}

SparseU(B, H, L) ==
  LET Idx == (1..B) \X (1..H) \X (0..(L - 1))
  IN {[b \in 1..B |-> [h \in 1..H |-> [l \in 0..(L - 1) |->
         IF <<b, h, l>> = p THEN v ELSE IF <<b, h, l>> = q THEN w ELSE 0]]] :
        p \in Idx, q \in Idx, v \in Samples, w \in Samples}

InitConv ==
  /\ ObjIdle /\ DecayIdle
  /\ C = <<>> /\ expdtA = <<>> /\ zoh = <<>> /\ D = <<>>
  /\ out = T("none", 0, <<>>)
  /\ \E B \in 1..MaxB, H \in 1..MaxH, L \in 1..MaxL :
       /\ U \in SparseU(B, H, L)
       /\ K \in SparseK(H, L)
  /\ Y = <<>>

\* lines 155-157: y from u and k
Convolve ==
  /\ Y = <<>>
  /\ Y' = FFTConv(U, K, Cardinality(DOMAIN K[1]))
  /\ UNCHANGED <<objVars, parameterization, log_A_real, A, C, expdtA, zoh, D, U, K, out>>

NextConv == Convolve

SpecConv == InitConv /\ [][NextConv]_vars

----------------------------------------------------------------------------
(* The forward pass of a block with the exp parameterization, on the       *)
(* values of its parameters.                                               *)

\* All-zero couplings, and couplings with one nonzero element.
Couplings(H, M) ==
  LET Idx == (1..H) \X (0..(M - 1))
  IN {[h \in 1..H |-> [n \in 0..(M - 1) |-> <<0, 0>>]]}
       \cup {[h \in 1..H |-> [n \in 0..(M - 1) |->
                IF <<h, n>> = p THEN v ELSE <<0, 0>>]] :
               p \in Idx, v \in {<<1, 0>>, <<0, 1>>}}

\* exp(dtA), one value for the layer
ExpValues(H, M) ==
  {[h \in 1..H |-> [n \in 0..(M - 1) |-> v]] : v \in {<<0, 1>>, <<1, -1>>}}

\* (exp(dtA) - 1) / A, one value for the layer
ZohValues(H, M) ==
  {[h \in 1..H |-> [n \in 0..(M - 1) |-> v]] : v \in {<<1, 0>>, <<1, 1>>}}

\* D, a different value on every channel
SkipValues(H) == {[h \in 1..H |-> h + 1]}

\* Inputs with one nonzero sample, in the layout (B, H, L).
OneHotU(B, H, L) ==
  LET Idx == (1..B) \X (1..H) \X (0..(L - 1))
  IN {[b \in 1..B |-> [h \in 1..H |-> [l \in 0..(L - 1) |->
         IF <<b, h, l>> = p THEN 2 ELSE 0]]] : p \in Idx}

InitBlockValues ==
  /\ DecayIdle
  /\ raised = "none" /\ ret = NoReturn /\ kernel = NoObject /\ model = NoObject
  /\ pc = "idle" /\ nextLayer = 0 /\ x = NoTensor
  /\ training \in BOOLEAN
  /\ \E d_model \in 1..MaxH, N \in 0..MaxN, dropout \in {0, 2}, transposed \in BOOLEAN,
        B \in 1..MaxB, L \in 1..MaxL :
       /\ call = [op |-> "STABLESSM", d_model |-> d_model, N |-> N, lr |-> NoneLr,
                  parameterization |-> "exp", dropout |-> dropout, dt |-> 0,
                  n_layers |-> 0, L |-> 0, shape |-> <<>>]
       /\ block = NewBlockOutcome(d_model, N, dropout, transposed, NoneLr, "exp",
                                  -2302585).obj
       /\ C \in Couplings(d_model, Modes(N))
       /\ expdtA \in ExpValues(d_model, Modes(N))
       /\ zoh \in ZohValues(d_model, Modes(N))
       /\ D \in SkipValues(d_model)
       /\ \E v \in OneHotU(B, d_model, L) :
            U = IF transposed THEN v ELSE TransposeNum(v)
  /\ K = <<>> /\ Y = <<>>
  /\ out = T("none", 0, <<>>)

\* STABLESSM.forward(u), lines 145-169
BlockForwardValues ==
  /\ Y = <<>>
  /\ LET r == BlockForwardValue(block, training, C, zoh, expdtA, D, U)
     IN /\ K' = r.k
        /\ Y' = r.y
        /\ out' = r.out
  /\ UNCHANGED <<objVars, parameterization, log_A_real, A, C, expdtA, zoh, D, U>>

NextBlockValues == BlockForwardValues

SpecBlockValues == InitBlockValues /\ [][NextBlockValues]_vars

----------------------------------------------------------------------------
(* Properties of construction and of the parameter registry.               *)

\* The kernels that exist in the state, whoever owns them.
BuiltKernels ==
  (IF kernel.exists THEN {kernel} ELSE {})
    \cup (IF block.exists THEN {block.kernel} ELSE {})
    \cup (IF model.exists
            THEN {model.stablessm_layers[i].kernel : i \in DOMAIN model.stablessm_layers}
            ELSE {})

RegisteredNames == {"log_dt", "log_A_real", "A_imag"}

OptimKeys(e) == {item[1] : item \in e.optim}

\* C1: for every parameterization name outside {exp, softplus, best, direct}
\* the construction of a kernel (directly, or by a STABLESSM block) raises an
\* error to the caller and leaves no object, so no kernel with an
\* unrecognised name exists and forward(L) never returns anything but a
\* tensor.
C1_UnknownParameterizationRaises ==
  /\ (call.op \in {"STABLESSMKernel", "STABLESSM"}
        /\ call.parameterization \notin KnownParameterizations)
       => (raised # "none" /\ ~kernel.exists /\ ~block.exists)
  /\ \A k \in BuiltKernels : k.parameterization \in KnownParameterizations
  /\ call.op = "forward" => (raised # "none" \/ ret.kind = "tensor")

C1_Witness ==
  /\ call.op = "STABLESSMKernel"
  /\ call.parameterization = "linear"
  /\ raised = "TypeError"
  /\ ~kernel.exists

\* C2: for every dropout probability p outside 0 <= p < 1, constructing a
\* STABLESSM block raises an error and no block is constructed.
C2_OutOfRangeDropoutRaises ==
  (call.op = "STABLESSM" /\ (call.dropout < 0 \/ call.dropout >= 10))
    => (raised # "none" /\ ~block.exists)

\* C3 as stated: constructing a kernel or a block with an odd state
\* dimension N raises an error.
C3_OddStateDimensionRaises ==
  (call.op \in {"STABLESSMKernel", "STABLESSM"} /\ call.N % 2 = 1)
    => raised # "none"

\* C3 as amended: the parity of N never decides the outcome.  A kernel
\* constructor call with a recognised parameterization returns an object for
\* every N, odd or even, and the object holds floor(N/2) complex modes: C has
\* shape (H, m, 2) and log_A_real and A_imag have shape (H, m) with
\* 2m <= N <= 2m + 1.
C3_OddStateDimensionAccepted ==
  /\ (call.op = "STABLESSMKernel"
        /\ call.parameterization \in KnownParameterizations)
       => (raised = "none" /\ kernel.exists)
  /\ \A k \in BuiltKernels :
       LET m == k.C[2]
       IN /\ 2 * m <= k.N /\ k.N <= 2 * m + 1
          /\ k.C = <<k.H, m, 2>>
          /\ \A h \in 1..k.H :
               /\ DOMAIN k.reg["A_imag"].value[h] = 0..(m - 1)
               /\ DOMAIN k.reg["log_A_real"].value[h] = 0..(m - 1)

C3_Witness ==
  /\ call.op = "STABLESSMKernel"
  /\ call.N = 3
  /\ raised = "none"
  /\ kernel.exists
  /\ kernel.C[2] = 1

\* C4: register(name, value, lr) stores the tensor as a buffer with no
\* optimizer tag when lr == 0, and otherwise as a parameter tagged with
\* weight_decay = 0 and with lr exactly when lr was given; the stored value
\* is the tensor that was passed.
C4_RegisterContract ==
  \A k \in BuiltKernels : \A name \in RegisteredNames :
    LET e == k.reg[name]
        lr == call.lr
    IN /\ (lr.given /\ lr.v = 0)
            => (e.kind = "buffer" /\ ~e.tagged /\ e.optim = {})
       /\ ~(lr.given /\ lr.v = 0)
            => /\ e.kind = "parameter"
               /\ e.tagged
               /\ <<"weight_decay", 0>> \in e.optim
               /\ lr.given => (<<"lr", lr.v>> \in e.optim
                                 /\ OptimKeys(e) = {"weight_decay", "lr"})
               /\ ~lr.given => OptimKeys(e) = {"weight_decay"}
               /\ Cardinality(e.optim) = Cardinality(OptimKeys(e))
       /\ k.reg["A_imag"].value = AImagInit(k.H, k.N)
       /\ k.reg["log_A_real"].value =
            Full(k.H, Modes(k.N), LogARealInit(k.parameterization))

C4_Witness ==
  /\ call.op = "STABLESSMKernel"
  /\ kernel.exists
  /\ call.lr = GivenLr(0)
  /\ kernel.reg["log_dt"].kind = "buffer"
  /\ ~kernel.reg["log_dt"].tagged

\* C8 as stated: A_imag[h, n] is initialised to pi * n, and it is a fixed
\* buffer in a kernel constructed with lr unspecified and in every layer of a
\* StableSSMModel.
C8_AImagFixedByDefault ==
  /\ \A k \in BuiltKernels : \A h \in 1..k.H :
       \A n \in DOMAIN k.reg["A_imag"].value[h] :
         k.reg["A_imag"].value[h][n] = PiMicro * n
  /\ (call.op = "STABLESSMKernel" /\ kernel.exists /\ ~call.lr.given)
       => kernel.reg["A_imag"].kind = "buffer"
  /\ model.exists
       => \A i \in DOMAIN model.stablessm_layers :
            model.stablessm_layers[i].kernel.reg["A_imag"].kind = "buffer"

\* C8 as amended: A_imag[h, n] is initialised to pi * n and is registered
\* with the kernel's lr like log_dt and log_A_real: it is a fixed buffer
\* exactly when lr == 0, and a trainable parameter otherwise.  With lr
\* unspecified it is a trainable parameter tagged weight_decay = 0; in a
\* layer of StableSSMModel, where lr = min(0.001, dt), it is a trainable
\* parameter tagged with that lr unless dt == 0.
C8_AImagTrainableUnlessLrZero ==
  /\ \A k \in BuiltKernels :
       /\ \A h \in 1..k.H : \A n \in DOMAIN k.reg["A_imag"].value[h] :
            k.reg["A_imag"].value[h][n] = PiMicro * n
       /\ k.reg["A_imag"].kind = "buffer" <=> (call.lr.given /\ call.lr.v = 0)
       /\ k.reg["A_imag"].kind = k.reg["log_A_real"].kind
       /\ k.reg["A_imag"].kind = k.reg["log_dt"].kind
       /\ k.reg["A_imag"].optim = k.reg["log_A_real"].optim
  /\ (call.op = "STABLESSMKernel" /\ kernel.exists /\ ~call.lr.given)
       => (kernel.reg["A_imag"].kind = "parameter"
             /\ kernel.reg["A_imag"].optim = {<<"weight_decay", 0>>})
  /\ model.exists
       => \A i \in DOMAIN model.stablessm_layers :
            LET e == model.stablessm_layers[i].kernel.reg["A_imag"]
            IN /\ e.kind = "buffer" <=> call.dt = 0
               /\ call.dt # 0
                    => e.optim = {<<"weight_decay", 0>>, <<"lr", Min(10, call.dt)>>}

C8_Witness ==
  /\ call.op = "StableSSMModel"
  /\ call.dt = 3300
  /\ model.exists
  /\ Len(model.stablessm_layers) >= 1
  /\ model.stablessm_layers[1].kernel.reg["A_imag"].kind = "parameter"
  /\ <<"lr", 10>> \in model.stablessm_layers[1].kernel.reg["A_imag"].optim
  /\ model.stablessm_layers[1].kernel.reg["A_imag"].value[1][2] = 2 * PiMicro

----------------------------------------------------------------------------
(* Properties of the forward passes of the block and of the stack.         *)

\* The value a layer of the stack is claimed to compute from x: the block
\* applied to Z (Norm(x) under pre-norm, x under post-norm), then through
\* `between`, plus x, normalized under post-norm.
LayerValue(between(_)) ==
  LET Z == IF model.prenorm THEN T("LayerNorm", nextLayer, <<x.term>>) ELSE x.term
      Xout == T("add", 0, <<between(T("STABLESSM", nextLayer, <<Z>>)), x.term>>)
  IN IF model.prenorm THEN Xout ELSE T("LayerNorm", nextLayer, <<Xout>>)

Nothing(t) == t

StackDropout(t) ==
  IF training /\ model.dropouts[nextLayer] > 0
    THEN T("Dropout1d", nextLayer, <<t>>) ELSE t

\* A step of the loop over the layers.
IsLayerStep == pc = "loop" /\ nextLayer' = nextLayer + 1

\* C6 as stated: every layer computes X_out = Block(Z) + X_in with nothing
\* applied between the block's output and the residual add, Z = Norm(X_in)
\* under pre-norm, Z = X_in and Norm applied to X_out under post-norm.
C6_ResidualOfBlockAlone ==
  [][IsLayerStep => x'.term = LayerValue(Nothing)]_vars

\* C6 as amended: every layer computes X_out = Dropout1d(Block(Z)) + X_in,
\* where Dropout1d is the stack's own per-layer dropout (the identity outside
\* training and for p = 0) and nothing else stands between the block and the
\* residual add; Z = Norm(X_in) under pre-norm, and under post-norm Z = X_in
\* and Norm is applied to X_out: exactly one normalization per layer.
C6_ResidualOfDroppedBlock ==
  [][IsLayerStep => x'.term = LayerValue(StackDropout)]_vars

C6_Witness ==
  /\ pc = "loop"
  /\ nextLayer = 2
  /\ training
  /\ model.dropouts[1] > 0
  /\ ~model.prenorm
  /\ x.term.op = "LayerNorm"
  /\ x.term.args[1].op = "add"
  /\ x.term.args[1].args[1].op = "Dropout1d"
  /\ x.term.args[1].args[1].args[1].op = "STABLESSM"

\* C7: StableSSMModel.forward maps an input of shape (B, L, channel_count) to
\* (B, channel_count) in pooling mode and to (B, L, channel_count) in
\* sequence mode, for every layer count; every layer maps (B, H, L) to
\* (B, H, L); and a block returns the shape it was given, for both values of
\* its transposed flag.
C7_ForwardShapes ==
  /\ pc = "loop"
       => x.shape = <<call.shape[1], call.shape[3], call.shape[2]>>
  /\ (call.op = "StableSSMModel.forward" /\ pc = "done")
       => /\ ret.kind = "tensor"
          /\ model.return_seq => ret.shape = call.shape
          /\ ~model.return_seq => ret.shape = <<call.shape[1], call.shape[3]>>
  /\ call.op = "STABLESSM.forward"
       => (ret.kind = "tensor" /\ ret.shape = call.shape)

C7_Witness ==
  /\ call.op = "StableSSMModel.forward"
  /\ pc = "done"
  /\ ~model.return_seq
  /\ Len(model.stablessm_layers) = 2
  /\ call.shape = <<1, 2, 2>>
  /\ ret.shape = <<1, 2>>

----------------------------------------------------------------------------
(* Properties of the decay, of the convolution and of the block's values.  *)

\* The causal linear convolution of one channel at time l.
CausalConv(uu, kk, l) == SumFn([j \in 0..l |-> uu[j] * kk[l - j]], 0, l)

\* C5: the convolver's result equals the causal linear convolution
\* Y[b,h,l] = sum over j in 0..l of U[b,h,j] * K[h,l-j] for every batch b,
\* channel h and l in [0, L): no wraparound term, no other channel and no
\* later input sample contributes.
C5_ConvolutionIsCausalLinear ==
  Y # <<>> =>
    /\ DOMAIN Y = DOMAIN U
    /\ \A b \in DOMAIN U :
         /\ DOMAIN Y[b] = DOMAIN U[b]
         /\ \A h \in DOMAIN U[b] :
              /\ DOMAIN Y[b][h] = DOMAIN U[b][h]
              /\ \A l \in DOMAIN U[b][h] :
                   Y[b][h][l] = CausalConv(U[b][h], K[h], l)

\* A run in which a wraparound term would have shown: u and k are nonzero at
\* time 1 only, so y is 0 at time 0 and u[1] * k[0] = 0 at time 1.
C5_Witness ==
  /\ Y # <<>>
  /\ Cardinality(DOMAIN K[1]) = 2
  /\ Cardinality(DOMAIN K) = 2
  /\ U[1][1][0] = 0 /\ U[1][1][1] = 2
  /\ K[1][0] = 0 /\ K[1][1] = -1
  /\ K[2][0] = 2
  /\ Y[1][1][0] = 0 /\ Y[1][1][1] = 0

FLt0(v) == v.sgn < 0
FLe0(v) == v.sgn <= 0
FGtMinus10(v) == v.cls \in {"zero", "fin"} /\ v.exact /\ v.num > -10 * v.den
FGeMinus10(v) == v.cls \in {"zero", "fin"} /\ v.exact /\ v.num >= -10 * v.den

UInner == IF block.transposed THEN U ELSE TransposeNum(U)

AllZero(c) == \A h \in DOMAIN c : \A n \in DOMAIN c[h] : c[h][n] = <<0, 0>>

\* C10: when every C[h, n] is 0 (exp parameterization) the kernel is all-zero
\* for every L, and the block's output is the gated projection of
\* Dropout(Activation(U * D)): the convolution contributes nothing, and the
\* steps are applied in the order skip add, activation, dropout, projection.
C10_ZeroCouplingIsSkipOnly ==
  (Y # <<>> /\ AllZero(C)) =>
    /\ \A h \in DOMAIN K : \A l \in DOMAIN K[h] : K[h][l] = 0
    /\ DOMAIN K = 1..block.h
    /\ \A h \in DOMAIN K : DOMAIN K[h] = DOMAIN UInner[1][h]
    /\ \A b \in DOMAIN UInner : \A h \in DOMAIN UInner[b] :
         \A l \in DOMAIN UInner[b][h] : Y[b][h][l] = UInner[b][h][l] * D[h]
    /\ LET act == T("GELU", 0, <<T("y", 0, <<>>)>>)
           dropped == IF training /\ block.dropout.class = "DropoutNd"
                        THEN T("DropoutNd", 0, <<act>>) ELSE act
           gated == T("GLU", 0, <<T("Conv1d", 0, <<dropped>>)>>)
       IN out = IF block.transposed THEN gated ELSE T("transpose", 0, <<gated>>)

C10_Witness ==
  /\ Y # <<>>
  /\ AllZero(C)
  /\ block.h = 2 /\ block.n = 2
  /\ block.transposed
  /\ training /\ block.dropout.class = "DropoutNd"
  /\ Cardinality(DOMAIN K[1]) = 2
  /\ U[1][2][1] = 2 /\ D[2] = 3
  /\ Y[1][2][1] = 6
  /\ K[2][1] = 0
  /\ out.op = "GLU"

====
